---- MODULE Spec2Model ----
(***************************************************************************)
(* A state-machine model of the ms-purview-migrator entry points:          *)
(*   - the scrape orchestrators  src/src/index.ts and src/src/scraper.ts   *)
(*     together with MSLogin and the three response-intercepting scrapers  *)
(*     (specification Spec);                                               *)
(*   - the replay orchestrator   src/src/migrator.ts together with the     *)
(*     destination API client src/src/zubuApi/api.ts                       *)
(*     (specification SpecReplay).                                         *)
(* SpecLive is one scrape run with progress of its calls and timers.       *)
(* Every awaited library call is one action.  What the browser, the page   *)
(* and the remote services answer is chosen nondeterministically.          *)
(***************************************************************************)
EXTENDS Integers, Sequences, FiniteSets, TLC

\* ------------------------------------------------------------------ bounds
MaxRows == 2        \* rows the template list view may hold
MaxCases == 2       \* cases the cases response may hold
MaxTemplates == 2   \* templates exports/templates.json may hold
MaxCommFiles == 2   \* exports/communications_*.json files present at replay

\* ------------------------------------------------------------- value sets
Progs == {"index", "scraper"}
Users == {"alice", "bob"}
EnvVars == {"username", "MS_USERNAME"}
SessionStatus == {"absent", "valid", "invalid"}
\* README.md: "Sessions expire after 8 hours by default"
SessionTimeoutHours == 8
\* age in hours of a session file when a run starts: younger or older than
\* the documented limit
SessionAges == {SessionTimeoutHours - 1, SessionTimeoutHours + 1}
\* what one communications response may carry in its `value` field
CommPayloads == {<< >>, <<"m1">>, <<"m1", "m2">>}

VARIABLES
  prog,          \* the entry point that is running
  env,           \* process.env: the configured identity per variable name
  sessionFiles,  \* sessions/{user}.json on disk: absent, or the state it holds
  sessionAtStart, \* what the identity's session file held when the run started
  sessionAge,    \* hours since that file was written (0 while there is none)
  pc,            \* position of the orchestrator
  abortSite,     \* the call whose error went uncaught ("" while none)
  ctxState,      \* storage state of the browser context ("none" before it exists)
  trace,         \* every page / file / teardown call made, in order
  authResult,    \* "none", "true" (resolved true) or "rejected"
  twoFA,         \* "none", "completed" or "timedOut"
  savedPath,     \* path handed to storageState by saveSession (<< >> while none)
  rows,          \* number of rows templateRow.all() returned
  rowIdx,        \* row the template loop is at (1-based)
  templates,     \* the array scrapeTemplates builds
  tmplReturned,  \* TRUE once scrapeTemplates has returned
  waits,         \* response waits that are armed and not settled
  casesUrl,      \* URL of the response scrapeCases read (<< >> while none)
  cases,         \* the array scrapeCases returned
  caseIdx,       \* case the communications loop is at (1-based)
  commResults,   \* per case: what scrapeCommunications returned
  commFailed,    \* per case: TRUE when a step of the call threw
  errorLog,      \* append requests made on error_log.txt (the case of each)
  exports,       \* exports/communications_{caseId}.json files written in this run
  templatesExport, \* exports/templates.json as written in this run
  \* ---- replay (migrator.ts)
  rpc,           \* position of the replay orchestrator
  authReply,     \* what the destination answers to authenticateUser
  auth,          \* value authenticateUser returned ("none" while none)
  templatesFile, \* parsed exports/templates.json
  commFiles,     \* parsed exports/communication* files, in directory order
  tmplPos,       \* position of the template loop in the list it iterates
  typePos,       \* position of the type loop in the list it iterates
  fileIdx,       \* communications file the loop is at (1-based)
  commStep,      \* which of the three calls of a communication comes next
  createCalls,   \* createTemplate requests sent, in order
  rAbortSite     \* the call whose error went uncaught ("" while none)

scrapeVars == <<prog, env, sessionFiles, sessionAtStart, sessionAge, pc, abortSite,
                ctxState, trace, authResult, twoFA, savedPath, rows, rowIdx, templates, tmplReturned, waits,
                casesUrl, cases, caseIdx, commResults, commFailed, errorLog, exports,
                templatesExport>>
replayVars == <<rpc, authReply, auth, templatesFile, commFiles, tmplPos, typePos,
                fileIdx, commStep, createCalls, rAbortSite>>
vars == <<scrapeVars, replayVars>>
idVars == <<prog, env, sessionAtStart, sessionAge>>
loginVars == <<authResult, twoFA, savedPath>>
tmplVars == <<rows, rowIdx, templates, tmplReturned, templatesExport>>
commVars == <<casesUrl, cases, caseIdx, commResults, commFailed, errorLog, exports>>

\* ----------------------------------------------------------------- helpers
Ev(op, arg, ok) == [op |-> op, arg |-> arg, ok |-> ok]

\* a faulty variant of LoginUserVar: both MSLogin classes read process.env.username
LoginUserVarShared(p) == "username"

\* The environment variable each entry point (and the MSLogin it imports) reads.
OrchestratorUserVar(p) == IF p = "index" THEN "username" ELSE "MS_USERNAME"
LoginUserVar(p) == IF p = "index" THEN "username" ELSE "MS_USERNAME"

\* path.normalize: a leading "." segment names the working directory
NormalizePath(p) == IF Len(p) > 0 /\ Head(p) = "." THEN Tail(p) ELSE p

\* 'sessions/' + process.env.X + '.json'
StorageStatePath(p) == <<"sessions", env[OrchestratorUserVar(p)], "json">>
\* `./sessions/${this.username}.json`
SaveSessionPath(p) == <<".", "sessions", env[LoginUserVar(p)], "json">>

\* the user whose session file a path names
PathUser(p) == NormalizePath(p)[2]

\* --------------------------------------------------------------- the setup
ScrapeInit ==
  /\ prog \in Progs
  \* the two variables name the same identity or two different ones; which of
  \* the two names is which makes no difference to any step
  /\ env \in {e \in [EnvVars -> Users] : e["username"] = "alice"}
  \* at most the session file of the configured identity exists
  /\ sessionFiles \in {f \in [Users -> SessionStatus] :
                         \A u \in Users : u # env[OrchestratorUserVar(prog)] => f[u] = "absent"}
  /\ sessionAtStart = sessionFiles[env[OrchestratorUserVar(prog)]]
  /\ sessionAge \in (IF sessionAtStart = "absent" THEN {0} ELSE SessionAges)
  /\ pc = "launch"
  /\ abortSite = ""
  /\ ctxState = "none"
  /\ trace = << >>
  /\ authResult = "none"
  /\ twoFA = "none"
  /\ savedPath = << >>
  /\ rows = 0
  /\ rowIdx = 0
  /\ templates = << >>
  /\ tmplReturned = FALSE
  /\ waits = {}
  /\ casesUrl = << >>
  /\ cases = << >>
  /\ caseIdx = 0
  /\ commResults = << >>
  /\ commFailed = << >>
  /\ errorLog = << >>
  /\ exports = {}
  /\ templatesExport = [written |-> FALSE, data |-> << >>]

\* A call made on the page (or the file system): it is recorded, and either it
\* succeeds and the caller goes on at `next`, or it throws and the error leaves
\* the orchestrator uncaught, blamed on `site`.
Call(op, arg, ok, next, site) ==
  /\ trace' = Append(trace, Ev(op, arg, ok))
  /\ pc' = IF ok THEN next ELSE "aborted"
  /\ abortSite' = IF ok THEN abortSite ELSE site

\* chromium.launch
Launch ==
  /\ pc = "launch"
  /\ \E ok \in BOOLEAN : Call("chromium.launch", 0, ok, "newContext", "launch")
  /\ UNCHANGED <<idVars, sessionFiles, ctxState, loginVars, tmplVars, waits, commVars>>
  /\ UNCHANGED replayVars

\* browser.newContext({storageState: path}); context.newPage.  The context starts
\* from the state the file holds.  What the engine does with a path that names no
\* file is the engine's business: it may reject the call or start empty.
NewContext ==
  /\ pc = "newContext"
  /\ LET st == sessionFiles[PathUser(StorageStatePath(prog))]
         next == IF prog = "index" THEN "existsSync" ELSE "mkdirExports"
     IN \/ /\ st # "absent"
           /\ ctxState' = st
           /\ Call("newContext", 0, TRUE, next, "newContext")
        \/ /\ st = "absent"
           /\ \E ok \in BOOLEAN :
                /\ ctxState' = IF ok THEN "anonymous" ELSE ctxState
                /\ Call("newContext", 0, ok, next, "newContext")
  /\ UNCHANGED <<idVars, sessionFiles, loginVars, tmplVars, waits, commVars>>
  /\ UNCHANGED replayVars

\* index.ts: if (existsSync('sessions/' + username + '.json')) ... else login
ExistsSync ==
  /\ pc = "existsSync"
  /\ pc' = IF sessionFiles[PathUser(StorageStatePath(prog))] # "absent"
           THEN "tmplGoto" ELSE "loginGoto"
  /\ UNCHANGED <<idVars, sessionFiles, abortSite, ctxState, trace, loginVars, tmplVars,
                 waits, commVars>>
  /\ UNCHANGED replayVars

\* MSLogin.goto: page.goto('https://login.microsoftonline.com/')
LoginGoto ==
  /\ pc = "loginGoto"
  /\ \E ok \in BOOLEAN :
       Call("MSLogin.goto", 0, ok, IF prog = "index" THEN "authenticate" ELSE "probe",
            "MSLogin.goto")
  /\ UNCHANGED <<idVars, sessionFiles, ctxState, loginVars, tmplVars, waits, commVars>>
  /\ UNCHANGED replayVars

\* scraper.ts: isLoggedIn = !(sign-in prompt visible).  isVisible answers at once:
\* a context holding a valid session never shows the prompt; any other context
\* shows it unless the page has not rendered it (yet).
SignInPromptVisible == IF ctxState = "valid" THEN {FALSE} ELSE BOOLEAN

\* a faulty variant of ProbeBranch: the negation of the probe is dropped
ProbeBranchNoNegation(visible) == IF visible THEN "tmplGoto" ELSE "authenticate"

\* const isLoggedIn = !visible; if (isLoggedIn) { continue } else { authenticate }
ProbeBranch(visible) == IF ~visible THEN "tmplGoto" ELSE "authenticate"

Probe ==
  /\ pc = "probe"
  /\ \E visible \in SignInPromptVisible :
       /\ trace' = Append(trace, Ev("isVisible.signIn", 0, visible))
       /\ pc' = ProbeBranch(visible)
  /\ UNCHANGED <<idVars, sessionFiles, abortSite, ctxState, loginVars, tmplVars, waits,
                 commVars>>
  /\ UNCHANGED replayVars

\* scraper.ts: fs.mkdirSync('exports', { recursive: true })
MkdirExports ==
  /\ pc = "mkdirExports"
  /\ \E ok \in BOOLEAN : Call("mkdirSync.exports", 0, ok, "loginGoto", "mkdirSync")
  /\ UNCHANGED <<idVars, sessionFiles, ctxState, loginVars, tmplVars, waits, commVars>>
  /\ UNCHANGED replayVars

\* ------------------------------------------------------ MSLogin.authenticate
\* a faulty variant of AuthCall: the catch settles the promise with
\* resolve(false), so the orchestrator's await returns and the run goes on
AuthCallResolvesFalse(op, ok, next) ==
  /\ trace' = Append(trace, Ev(op, 0, ok))
  /\ pc' = IF ok THEN next ELSE "loginSuccess"
  /\ abortSite' = abortSite
  /\ authResult' = IF ok THEN authResult ELSE "false"

\* A call made inside authenticate's outer try: when it throws, the catch
\* rejects the promise (reject(false)), and the orchestrator's await, which sits
\* in no try block, throws in turn.
AuthCall(op, ok, next) ==
  /\ trace' = Append(trace, Ev(op, 0, ok))
  /\ pc' = IF ok THEN next ELSE "aborted"
  /\ abortSite' = IF ok THEN abortSite ELSE "authenticate"
  /\ authResult' = IF ok THEN authResult ELSE "rejected"

\* the orchestrator calls msLogin.authenticate(); msAuth/login.ts starts with
\* enterCredentials, auth/login.ts with the username fill
Authenticate ==
  /\ pc = "authenticate"
  /\ trace' = Append(trace, Ev("authenticate", 0, TRUE))
  /\ pc' = IF prog = "scraper" THEN "isAccountFound" ELSE "fillUser"
  /\ UNCHANGED <<idVars, sessionFiles, abortSite, ctxState, loginVars, tmplVars, waits,
                 commVars>>
  /\ UNCHANGED replayVars

\* msAuth/login.ts: locator('text=Pick an account').isVisible()
IsAccountFound ==
  /\ pc = "isAccountFound"
  /\ \E found \in BOOLEAN :
       /\ trace' = Append(trace, Ev("isVisible.pickAnAccount", 0, found))
       /\ pc' = IF found THEN "clickTile" ELSE "fillUser"
  /\ UNCHANGED <<idVars, sessionFiles, abortSite, ctxState, loginVars, tmplVars, waits,
                 commVars>>
  /\ UNCHANGED replayVars

\* page.click(`text=${username}`)
ClickTile ==
  /\ pc = "clickTile"
  /\ \E ok \in BOOLEAN : AuthCall("click.accountTile", ok, "waitPasswd")
  /\ UNCHANGED <<idVars, sessionFiles, ctxState, twoFA, savedPath, tmplVars, waits,
                 commVars>>
  /\ UNCHANGED replayVars

\* page.fill('input[name="loginfmt"]', username)
FillUser ==
  /\ pc = "fillUser"
  /\ \E ok \in BOOLEAN : AuthCall("fill.loginfmt", ok, "submitUser")
  /\ UNCHANGED <<idVars, sessionFiles, ctxState, twoFA, savedPath, tmplVars, waits,
                 commVars>>
  /\ UNCHANGED replayVars

\* page.click('input[type="submit"]') after the username
SubmitUser ==
  /\ pc = "submitUser"
  /\ \E ok \in BOOLEAN : AuthCall("click.submitUser", ok, "waitPasswd")
  /\ UNCHANGED <<idVars, sessionFiles, ctxState, twoFA, savedPath, tmplVars, waits,
                 commVars>>
  /\ UNCHANGED replayVars

\* page.waitForSelector('input[name="passwd"]', { timeout: 5000 })
WaitPasswd ==
  /\ pc = "waitPasswd"
  /\ \E ok \in BOOLEAN : AuthCall("waitForSelector.passwd", ok, "fillPasswd")
  /\ UNCHANGED <<idVars, sessionFiles, ctxState, twoFA, savedPath, tmplVars, waits,
                 commVars>>
  /\ UNCHANGED replayVars

\* page.fill('input[name="passwd"]', password)
FillPasswd ==
  /\ pc = "fillPasswd"
  /\ \E ok \in BOOLEAN : AuthCall("fill.passwd", ok, "submitPasswd")
  /\ UNCHANGED <<idVars, sessionFiles, ctxState, twoFA, savedPath, tmplVars, waits,
                 commVars>>
  /\ UNCHANGED replayVars

\* page.click('input[type="submit"]') after the password
SubmitPasswd ==
  /\ pc = "submitPasswd"
  /\ \E ok \in BOOLEAN : AuthCall("click.submitPasswd", ok, "wait2FA")
  /\ UNCHANGED <<idVars, sessionFiles, ctxState, twoFA, savedPath, tmplVars, waits,
                 commVars>>
  /\ UNCHANGED replayVars

\* a faulty variant of After2FAWait: the timeout of the second-factor wait is thrown on
After2FAWaitPropagates(completed) == IF completed THEN "waitLoadState" ELSE "aborted"

\* Where authenticate goes once handle2FA's waitForURL has settled.  handle2FA
\* catches its own errors, and authenticate wraps the call in a try of its own:
\* a timeout is logged and authenticate goes on to resolve(true).
After2FAWait(completed) == IF completed THEN "waitLoadState" ELSE "authResolve"

\* handle2FA: page.waitForURL('.../common/SAS/ProcessAuth', { timeout: 60000 }).
\* When the wait times out the account may still be signed in (no second
\* factor was asked for) or not (the challenge was not answered).
Wait2FA ==
  /\ pc = "wait2FA"
  /\ \E completed \in BOOLEAN :
       /\ trace' = Append(trace, Ev("waitForURL.ProcessAuth", 0, completed))
       /\ twoFA' = IF completed THEN "completed" ELSE "timedOut"
       /\ pc' = After2FAWait(completed)
       /\ IF pc' = "aborted"
          THEN abortSite' = "authenticate" /\ authResult' = "rejected"
          ELSE UNCHANGED <<abortSite, authResult>>
       /\ \E st \in (IF completed THEN {"valid"} ELSE {"valid", ctxState}) :
            ctxState' = st
  /\ UNCHANGED <<idVars, sessionFiles, savedPath, tmplVars, waits, commVars>>
  /\ UNCHANGED replayVars

\* handle2FA: page.waitForLoadState('networkidle'); an error is caught and logged
WaitLoadState ==
  /\ pc = "waitLoadState"
  /\ trace' = Append(trace, Ev("waitForLoadState", 0, TRUE))
  /\ pc' = "authResolve"
  /\ UNCHANGED <<idVars, sessionFiles, abortSite, ctxState, loginVars, tmplVars, waits,
                 commVars>>
  /\ UNCHANGED replayVars

\* resolve(true)
AuthResolve ==
  /\ pc = "authResolve"
  /\ authResult' = "true"
  /\ pc' = "loginSuccess"
  /\ UNCHANGED <<idVars, sessionFiles, abortSite, ctxState, trace, twoFA, savedPath,
                 tmplVars, waits, commVars>>
  /\ UNCHANGED replayVars

\* if (loginSuccess) { saveSession } else { console.error('Login failed.') }
LoginSuccessBranch ==
  /\ pc = "loginSuccess"
  /\ pc' = IF authResult = "true" THEN "saveSession" ELSE "tmplGoto"
  /\ UNCHANGED <<idVars, sessionFiles, abortSite, ctxState, trace, loginVars, tmplVars,
                 waits, commVars>>
  /\ UNCHANGED replayVars

\* MSLogin.saveSession: context.storageState({ path: `./sessions/${username}.json` })
\* writes the context's current state to that path.
SaveSession ==
  /\ pc = "saveSession"
  /\ savedPath' = SaveSessionPath(prog)
  /\ \E ok \in BOOLEAN :
       /\ Call("saveSession", 0, ok, "tmplGoto", "saveSession")
       /\ sessionFiles' =
            IF ok THEN [sessionFiles EXCEPT ![PathUser(SaveSessionPath(prog))] =
                          IF ctxState = "valid" THEN "valid" ELSE "invalid"]
            ELSE sessionFiles
  /\ UNCHANGED <<idVars, ctxState, authResult, twoFA, tmplVars, waits, commVars>>
  /\ UNCHANGED replayVars

\* ------------------------------------------------ MSEDiscoveryTemplateScraper
\* A call made by the template scraper: nothing catches what it throws.
TmplCall(op, arg, ok, next) == Call(op, arg, ok, next, "templateScraper")

\* goto: page.goto(.../globalsettings?viewid=Overview...), the first scraper action
TmplGoto ==
  /\ pc = "tmplGoto"
  /\ \E ok \in BOOLEAN : TmplCall("TemplateScraper.goto", 0, ok, "getStarted")
  /\ UNCHANGED <<idVars, sessionFiles, ctxState, loginVars, tmplVars, waits, commVars>>
  /\ UNCHANGED replayVars

\* handlePopup: click "Get started", waitForTimeout(2000)
ClickGetStarted ==
  /\ pc = "getStarted"
  /\ \E ok \in BOOLEAN : TmplCall("click.getStarted", 0, ok, "doneButton")
  /\ UNCHANGED <<idVars, sessionFiles, ctxState, loginVars, tmplVars, waits, commVars>>
  /\ UNCHANGED replayVars

\* handlePopup: click "Done", waitForTimeout(2000)
ClickDone ==
  /\ pc = "doneButton"
  /\ \E ok \in BOOLEAN : TmplCall("click.done", 0, ok, "waitLibrary")
  /\ UNCHANGED <<idVars, sessionFiles, ctxState, loginVars, tmplVars, waits, commVars>>
  /\ UNCHANGED replayVars

\* goto: waitForSelector('text=Communication Library', { timeout: 20000 })
WaitLibrary ==
  /\ pc = "waitLibrary"
  /\ \E ok \in BOOLEAN : TmplCall("waitForSelector.library", 0, ok, "clickLibrary")
  /\ UNCHANGED <<idVars, sessionFiles, ctxState, loginVars, tmplVars, waits, commVars>>
  /\ UNCHANGED replayVars

\* clickOnCommunicationLibrary: click('#CommunicationLibrary')
ClickLibrary ==
  /\ pc = "clickLibrary"
  /\ \E ok \in BOOLEAN : TmplCall("click.library", 0, ok, "waitRows")
  /\ UNCHANGED <<idVars, sessionFiles, ctxState, loginVars, tmplVars, waits, commVars>>
  /\ UNCHANGED replayVars

\* clickOnCommunicationLibrary: waitForSelector(DetailsRow, { timeout: 10000 })
WaitRows ==
  /\ pc = "waitRows"
  /\ \E ok \in BOOLEAN : TmplCall("waitForSelector.rows", 0, ok, "rowsAll")
  /\ UNCHANGED <<idVars, sessionFiles, ctxState, loginVars, tmplVars, waits, commVars>>
  /\ UNCHANGED replayVars

\* a faulty variant of RowLoop: the loop stops one row early
RowLoopStopsEarly(i, n) == IF i < n THEN "innerText" ELSE "tmplReturn"

\* for (const row of templateRows): the row the loop turns to after row i - 1,
\* or the return once the rows are exhausted
RowLoop(i, n) == IF i <= n THEN "innerText" ELSE "tmplReturn"

\* scrapeTemplates: templates = []; templateRows = await templateRow.all()
RowsAll ==
  /\ pc = "rowsAll"
  /\ \E n \in 0..MaxRows :
       /\ rows' = n
       /\ rowIdx' = 1
       /\ pc' = RowLoop(1, n)
  /\ templates' = << >>
  /\ trace' = Append(trace, Ev("rows.all", 0, TRUE))
  /\ UNCHANGED <<idVars, sessionFiles, abortSite, ctxState, loginVars, tmplReturned,
                 templatesExport, waits, commVars>>
  /\ UNCHANGED replayVars

\* templateLocator.first().innerText()
RowInnerText ==
  /\ pc = "innerText"
  /\ \E ok \in BOOLEAN : TmplCall("innerText.row", rowIdx, ok, "rowClick")
  /\ UNCHANGED <<idVars, sessionFiles, ctxState, loginVars, tmplVars, waits, commVars>>
  /\ UNCHANGED replayVars

\* templateLocator.first().click()
RowClick ==
  /\ pc = "rowClick"
  /\ \E ok \in BOOLEAN : TmplCall("click.row", rowIdx, ok, "armTemplateWait")
  /\ UNCHANGED <<idVars, sessionFiles, ctxState, loginVars, tmplVars, waits, commVars>>
  /\ UNCHANGED replayVars

\* a response wait as armed by page.waitForResponse
Wait(kind, owner) == [kind |-> kind, owner |-> owner, abandoned |-> FALSE]

\* templatePromise = page.waitForResponse(urlRegex, { timeout: 15000 })
ArmTemplateWait ==
  /\ pc = "armTemplateWait"
  /\ waits' = waits \cup {Wait("template", rowIdx)}
  /\ trace' = Append(trace, Ev("waitForResponse.template", rowIdx, TRUE))
  /\ pc' = "editClick"
  /\ UNCHANGED <<idVars, sessionFiles, abortSite, ctxState, loginVars, tmplVars, commVars>>
  /\ UNCHANGED replayVars

\* editButton.click()
EditClick ==
  /\ pc = "editClick"
  /\ \E ok \in BOOLEAN : TmplCall("click.edit", rowIdx, ok, "awaitTemplate")
  /\ UNCHANGED <<idVars, sessionFiles, ctxState, loginVars, tmplVars, waits, commVars>>
  /\ UNCHANGED replayVars

\* response = await templatePromise: the detail response arrives, or the wait
\* rejects after 15 s and the rejection leaves scrapeTemplates
AwaitTemplate ==
  /\ pc = "awaitTemplate"
  /\ waits' = {w \in waits : w.kind # "template"}
  /\ \E arrived \in BOOLEAN :
       TmplCall("response.template", rowIdx, arrived, "templateJson")
  /\ UNCHANGED <<idVars, sessionFiles, ctxState, loginVars, tmplVars, commVars>>
  /\ UNCHANGED replayVars

\* templates.push(templateData): the array after the push
PushTemplate(arr, data) == Append(arr, data)

\* if (response) { templateData = await response.json(); templates.push(templateData) }
TemplateJson ==
  /\ pc = "templateJson"
  /\ \E ok \in BOOLEAN :
       /\ TmplCall("json.template", rowIdx, ok, "cancelClick")
       /\ templates' = IF ok THEN PushTemplate(templates, [row |-> rowIdx]) ELSE templates
  /\ UNCHANGED <<idVars, sessionFiles, ctxState, loginVars, rows, rowIdx, tmplReturned,
                 templatesExport, waits, commVars>>
  /\ UNCHANGED replayVars

\* cancelButton.click(), then the next row
CancelClick ==
  /\ pc = "cancelClick"
  /\ \E ok \in BOOLEAN :
       /\ TmplCall("click.cancel", rowIdx, ok, RowLoop(rowIdx + 1, rows))
       /\ rowIdx' = IF ok THEN rowIdx + 1 ELSE rowIdx
  /\ UNCHANGED <<idVars, sessionFiles, ctxState, loginVars, rows, templates, tmplReturned,
                 templatesExport, waits, commVars>>
  /\ UNCHANGED replayVars

\* return templates; index.ts goes on to its teardown, scraper.ts to the export
TemplateReturn ==
  /\ pc = "tmplReturn"
  /\ tmplReturned' = TRUE
  /\ pc' = IF prog = "index" THEN "contextClose" ELSE "writeTemplates"
  /\ UNCHANGED <<idVars, sessionFiles, abortSite, ctxState, trace, loginVars, rows, rowIdx,
                 templates, templatesExport, waits, commVars>>
  /\ UNCHANGED replayVars

\* scraper.ts: fs.writeFileSync('exports/templates.json', JSON.stringify(templates))
WriteTemplates ==
  /\ pc = "writeTemplates"
  /\ \E ok \in BOOLEAN :
       /\ Call("writeFileSync.templates", 0, ok, "armCasesWait", "writeFileSync")
       /\ templatesExport' = IF ok THEN [written |-> TRUE, data |-> templates]
                             ELSE templatesExport
  /\ UNCHANGED <<idVars, sessionFiles, ctxState, loginVars, rows, rowIdx, templates,
                 tmplReturned, waits, commVars>>
  /\ UNCHANGED replayVars

\* --------------------------------------------------- MSEDiscoveryCasesScraper
\* scrapeCases has no try block: whatever one of its steps throws leaves it.
CasesCall(op, ok, next) == Call(op, 0, ok, next, "scrapeCases")

\* a faulty variant of ArmCasesWait: scrapeCases navigates first and registers
\* its wait once the navigation has returned
ArmCasesWaitAfterGoto ==
  /\ pc = "armCasesWait"
  /\ waits' = waits \cup {Wait("cases", 0)}
  /\ trace' = trace \o <<Ev("CasesScraper.goto", 0, TRUE),
                          Ev("waitForResponse.cases", 0, TRUE)>>
  /\ pc' = "awaitCases"
  /\ UNCHANGED <<idVars, sessionFiles, abortSite, ctxState, loginVars, tmplVars, commVars>>
  /\ UNCHANGED replayVars

\* casesPromise = page.waitForResponse(urlRegex, { timeout: 45000 })
ArmCasesWait ==
  /\ pc = "armCasesWait"
  /\ waits' = waits \cup {Wait("cases", 0)}
  /\ trace' = Append(trace, Ev("waitForResponse.cases", 0, TRUE))
  /\ pc' = "casesGoto"
  /\ UNCHANGED <<idVars, sessionFiles, abortSite, ctxState, loginVars, tmplVars, commVars>>
  /\ UNCHANGED replayVars

\* await this.goto()
CasesGoto ==
  /\ pc = "casesGoto"
  /\ \E ok \in BOOLEAN : CasesCall("CasesScraper.goto", ok, "awaitCases")
  /\ UNCHANGED <<idVars, sessionFiles, ctxState, loginVars, tmplVars, waits, commVars>>
  /\ UNCHANGED replayVars

\* Where scrapeCases goes once its response wait has settled: the response is
\* read, or the rejection of the wait (TimeoutError after 45 s) is thrown on.
AfterCasesWait(arrived) == IF arrived THEN "casesJson" ELSE "aborted"

\* Backend responses the portal's pages receive, as the part of the URL after
\* https://purview.microsoft.com/apiproxy/aedmcc/ediscovery/v1/ : the cases
\* list, the communications of one case, the detail of one template.
BackendUrls ==
  {<<"cases">>, <<"cases", "('id')", "/communications">>,
   <<"communicationtemplates", "('id')">>}
\* urlRegex of scrapeCases: /https:\/\/...\/ediscovery\/v1\/cases/
CasesPattern == <<"cases">>
\* RegExp.test on a URL: the pattern is not anchored at its end, so it matches
\* every URL it is a prefix of
Matches(pattern, url) ==
  /\ Len(pattern) <= Len(url)
  /\ SubSeq(url, 1, Len(pattern)) = pattern

\* a faulty variant of AwaitCases: the wait is registered with { timeout: 0 },
\* so nothing but a matching response settles it
AwaitCasesNoTimeout ==
  /\ pc = "awaitCases"
  /\ waits' = {w \in waits : w.kind # "cases"}
  /\ trace' = Append(trace, Ev("response.cases", 0, TRUE))
  /\ pc' = AfterCasesWait(TRUE)
  /\ \E url \in {u \in BackendUrls : Matches(CasesPattern, u)} : casesUrl' = url
  /\ UNCHANGED <<idVars, sessionFiles, abortSite, ctxState, loginVars, tmplVars, cases,
                 caseIdx, commResults, commFailed, errorLog, exports>>
  /\ UNCHANGED replayVars

\* response = await casesPromise: the first response whose URL the pattern
\* matches settles the wait
AwaitCases ==
  /\ pc = "awaitCases"
  /\ waits' = {w \in waits : w.kind # "cases"}
  /\ \E arrived \in BOOLEAN :
       /\ trace' = Append(trace, Ev("response.cases", 0, arrived))
       /\ pc' = AfterCasesWait(arrived)
       /\ abortSite' = IF pc' = "aborted" THEN "scrapeCases" ELSE abortSite
       /\ IF arrived
          THEN \E url \in {u \in BackendUrls : Matches(CasesPattern, u)} :
                  casesUrl' = url
          ELSE UNCHANGED casesUrl
  /\ UNCHANGED <<idVars, sessionFiles, ctxState, loginVars, tmplVars, cases, caseIdx,
                 commResults, commFailed, errorLog, exports>>
  /\ UNCHANGED replayVars

\* the records 1..n of the `value` array of the response read, in its order
CaseList(n) == [i \in 1..n |-> i]

\* casesData = (await response.json()).value; casesData.length; return casesData.
\* A body that does not parse, or one without a `value` array, throws.
CasesJson ==
  /\ pc = "casesJson"
  /\ \/ /\ CasesCall("json.cases", FALSE, "commLoop")
        /\ UNCHANGED <<cases, caseIdx>>
     \/ \E n \in 0..MaxCases :
          /\ CasesCall("json.cases", TRUE, "commLoop")
          /\ cases' = CaseList(n)
          /\ caseIdx' = 1
  /\ UNCHANGED <<idVars, sessionFiles, ctxState, loginVars, tmplVars, waits, casesUrl,
                 commResults, commFailed, errorLog, exports>>
  /\ UNCHANGED replayVars

\* -------------------------------------------- MSEDiscoveryCommunicationsScraper
Running == pc \notin {"done", "aborted", "crashed"}

\* scraper.ts: for (const eDiscoveryCase of eDiscoveryCases) { scrapeCommunications },
\* then the teardown.  scrapeCommunications starts by arming its response wait:
\* communicationsPromise = page.waitForResponse(urlRegex, { timeout: 45000 })
CommLoop ==
  /\ pc = "commLoop"
  /\ IF caseIdx <= Len(cases)
     THEN /\ trace' = Append(trace, Ev("scrapeCommunications", cases[caseIdx], TRUE))
          /\ waits' = waits \cup {Wait("communications", cases[caseIdx])}
          /\ pc' = "commGoto"
     ELSE /\ pc' = "contextClose"
          /\ UNCHANGED <<trace, waits>>
  /\ UNCHANGED <<idVars, sessionFiles, abortSite, ctxState, loginVars, tmplVars, commVars>>
  /\ UNCHANGED replayVars

\* await this.goto(eDiscoveryCase), inside the try.  When it throws, the catch
\* runs while communicationsPromise is still pending: nothing awaits it any more.
CommGoto ==
  /\ pc = "commGoto"
  /\ \E ok \in BOOLEAN :
       /\ trace' = Append(trace, Ev("CommunicationsScraper.goto", cases[caseIdx], ok))
       /\ pc' = IF ok THEN "awaitComm" ELSE "commCatch"
       /\ waits' = IF ok THEN waits
                   ELSE {IF w = Wait("communications", cases[caseIdx])
                         THEN [w EXCEPT !.abandoned = TRUE] ELSE w : w \in waits}
  /\ UNCHANGED <<idVars, sessionFiles, abortSite, ctxState, loginVars, tmplVars, commVars>>
  /\ UNCHANGED replayVars

\* response = await communicationsPromise.  A response matching the pattern
\* settles every wait armed on that pattern; a timeout rejects this call's wait.
AwaitComm ==
  /\ pc = "awaitComm"
  /\ \E arrived \in BOOLEAN :
       /\ trace' = Append(trace, Ev("response.communications", cases[caseIdx], arrived))
       /\ pc' = IF arrived THEN "commJson" ELSE "commCatch"
       /\ waits' = IF arrived THEN {w \in waits : w.kind # "communications"}
                   ELSE waits \ {Wait("communications", cases[caseIdx])}
  /\ UNCHANGED <<idVars, sessionFiles, abortSite, ctxState, loginVars, tmplVars, commVars>>
  /\ UNCHANGED replayVars

\* communicationsData = (await response.json()).value; communicationsData.length;
\* return communicationsData.  A body that does not parse, or one without a
\* `value` array, throws into the catch.
CommJson ==
  /\ pc = "commJson"
  /\ \/ /\ trace' = Append(trace, Ev("json.communications", cases[caseIdx], FALSE))
        /\ pc' = "commCatch"
        /\ UNCHANGED <<commResults, commFailed>>
     \/ \E data \in CommPayloads :
          /\ trace' = Append(trace, Ev("json.communications", cases[caseIdx], TRUE))
          /\ commResults' = Append(commResults, data)
          /\ commFailed' = Append(commFailed, FALSE)
          /\ pc' = "commExport"
  /\ UNCHANGED <<idVars, sessionFiles, abortSite, ctxState, loginVars, tmplVars, waits,
                 casesUrl, cases, caseIdx, errorLog, exports>>
  /\ UNCHANGED replayVars

\* What the catch block of scrapeCommunications hands back to its caller.
CatchResult == << >>

\* a faulty variant of CommCatch: the catch logs the error and throws it on
CommCatchRethrows ==
  /\ pc = "commCatch"
  /\ errorLog' = Append(errorLog, cases[caseIdx])
  /\ pc' = "aborted"
  /\ abortSite' = "scrapeCommunications"
  /\ UNCHANGED <<idVars, sessionFiles, ctxState, trace, loginVars, tmplVars,
                 waits, casesUrl, cases, caseIdx, commResults, commFailed, exports>>
  /\ UNCHANGED replayVars

\* catch (error) { await this.logError(...); return []; }  logError asks
\* fs.appendFile for one append to error_log.txt and reports its outcome from
\* the callback only.
CommCatch ==
  /\ pc = "commCatch"
  /\ errorLog' = Append(errorLog, cases[caseIdx])
  /\ commResults' = Append(commResults, CatchResult)
  /\ commFailed' = Append(commFailed, TRUE)
  /\ pc' = "commExport"
  /\ UNCHANGED <<idVars, sessionFiles, abortSite, ctxState, trace, loginVars, tmplVars,
                 waits, casesUrl, cases, caseIdx, exports>>
  /\ UNCHANGED replayVars

\* a faulty variant of CommExport: the file is written whatever the count
CommExportAlways ==
  /\ pc = "commExport"
  /\ \E ok \in BOOLEAN :
       /\ Call("writeFileSync.communications", cases[caseIdx], ok, "commLoop",
               "writeFileSync")
       /\ exports' = IF ok THEN exports \cup {[caseId |-> cases[caseIdx],
                                              data |-> commResults[caseIdx]]}
                     ELSE exports
       /\ caseIdx' = IF ok THEN caseIdx + 1 ELSE caseIdx
  /\ UNCHANGED <<idVars, sessionFiles, ctxState, loginVars, tmplVars, waits, casesUrl,
                 cases, commResults, commFailed, errorLog>>
  /\ UNCHANGED replayVars

\* if (communicationsCount > 0) writeFileSync(`exports/communications_${id}.json`)
CommExport ==
  /\ pc = "commExport"
  /\ LET data == commResults[caseIdx]
     IN IF Len(data) > 0
        THEN \E ok \in BOOLEAN :
               /\ Call("writeFileSync.communications", cases[caseIdx], ok, "commLoop",
                       "writeFileSync")
               /\ exports' = IF ok THEN exports \cup {[caseId |-> cases[caseIdx],
                                                      data |-> data]}
                             ELSE exports
               /\ caseIdx' = IF ok THEN caseIdx + 1 ELSE caseIdx
        ELSE /\ pc' = "commLoop"
             /\ caseIdx' = caseIdx + 1
             /\ UNCHANGED <<trace, abortSite, exports>>
  /\ UNCHANGED <<idVars, sessionFiles, ctxState, loginVars, tmplVars, waits, casesUrl,
                 cases, commResults, commFailed, errorLog>>
  /\ UNCHANGED replayVars

\* A wait nobody awaits any more rejects (its 45 s run out, or its page is
\* closed).  No handler is attached to it: the runtime reports an unhandled
\* rejection, which ends the process or only warns, depending on the runtime.
UnhandledRejection ==
  /\ Running
  /\ \E w \in waits :
       /\ w.abandoned
       /\ waits' = waits \ {w}
       /\ \E fatal \in BOOLEAN :
            /\ pc' = IF fatal THEN "crashed" ELSE pc
            /\ abortSite' = IF fatal THEN "unhandledRejection" ELSE abortSite
  /\ UNCHANGED <<idVars, sessionFiles, ctxState, trace, loginVars, tmplVars, commVars>>
  /\ UNCHANGED replayVars

\* ------------------------------------------------------------------ teardown
\* await context.close()
ContextClose ==
  /\ pc = "contextClose"
  /\ \E ok \in BOOLEAN : Call("context.close", 0, ok, "browserClose", "teardown")
  /\ UNCHANGED <<idVars, sessionFiles, ctxState, loginVars, tmplVars, waits, commVars>>
  /\ UNCHANGED replayVars

\* await browser.close()
BrowserClose ==
  /\ pc = "browserClose"
  /\ \E ok \in BOOLEAN : Call("browser.close", 0, ok, "done", "teardown")
  /\ UNCHANGED <<idVars, sessionFiles, ctxState, loginVars, tmplVars, waits, commVars>>
  /\ UNCHANGED replayVars

\* The process has ended; the entry point is started again later, with the same
\* .env and with the session files the earlier runs left behind.
NextRun ==
  /\ ~Running
  /\ prog' = prog
  /\ sessionAtStart' = sessionFiles[env[OrchestratorUserVar(prog)]]
  \* the next run starts any time later
  /\ sessionAge' \in (IF sessionAtStart' = "absent" THEN {0} ELSE SessionAges)
  /\ pc' = "launch"
  /\ abortSite' = ""
  /\ ctxState' = "none"
  /\ trace' = << >>
  /\ authResult' = "none"
  /\ twoFA' = "none"
  /\ savedPath' = << >>
  /\ rows' = 0
  /\ rowIdx' = 0
  /\ templates' = << >>
  /\ tmplReturned' = FALSE
  /\ waits' = {}
  /\ casesUrl' = << >>
  /\ cases' = << >>
  /\ caseIdx' = 0
  /\ commResults' = << >>
  /\ commFailed' = << >>
  /\ errorLog' = << >>
  /\ exports' = {}
  /\ templatesExport' = [written |-> FALSE, data |-> << >>]
  /\ UNCHANGED <<env, sessionFiles>>
  /\ UNCHANGED replayVars

ReplayIdle ==
  /\ rpc = "idle"
  /\ authReply = "none"
  /\ auth = "none"
  /\ templatesFile = << >>
  /\ commFiles = << >>
  /\ tmplPos = 0
  /\ typePos = 0
  /\ fileIdx = 0
  /\ commStep = 0
  /\ createCalls = << >>
  /\ rAbortSite = ""

Init == ScrapeInit /\ ReplayIdle

Next ==
  \/ Launch \/ NewContext \/ ExistsSync \/ MkdirExports \/ LoginGoto \/ Probe
  \/ Authenticate \/ IsAccountFound \/ ClickTile \/ FillUser \/ SubmitUser
  \/ WaitPasswd \/ FillPasswd \/ SubmitPasswd \/ Wait2FA \/ WaitLoadState
  \/ AuthResolve \/ LoginSuccessBranch \/ SaveSession
  \/ TmplGoto \/ ClickGetStarted \/ ClickDone \/ WaitLibrary \/ ClickLibrary
  \/ WaitRows \/ RowsAll \/ RowInnerText \/ RowClick \/ ArmTemplateWait \/ EditClick
  \/ AwaitTemplate \/ TemplateJson \/ CancelClick \/ TemplateReturn \/ WriteTemplates
  \/ ArmCasesWait \/ CasesGoto \/ AwaitCases \/ CasesJson
  \/ CommLoop \/ CommGoto \/ AwaitComm \/ CommJson \/ CommCatch \/ CommExport
  \/ UnhandledRejection \/ ContextClose \/ BrowserClose \/ NextRun

Spec == Init /\ [][Next]_vars

\* ------------------------------------------------------ one run, with progress
\* the steps of one orchestrator run
RunStep ==
  \/ Launch \/ NewContext \/ ExistsSync \/ MkdirExports \/ LoginGoto \/ Probe
  \/ Authenticate \/ IsAccountFound \/ ClickTile \/ FillUser \/ SubmitUser
  \/ WaitPasswd \/ FillPasswd \/ SubmitPasswd \/ Wait2FA \/ WaitLoadState
  \/ AuthResolve \/ LoginSuccessBranch \/ SaveSession
  \/ TmplGoto \/ ClickGetStarted \/ ClickDone \/ WaitLibrary \/ ClickLibrary
  \/ WaitRows \/ RowsAll \/ RowInnerText \/ RowClick \/ ArmTemplateWait \/ EditClick
  \/ AwaitTemplate \/ TemplateJson \/ CancelClick \/ TemplateReturn \/ WriteTemplates
  \/ ArmCasesWait \/ CasesGoto \/ AwaitCases \/ CasesJson
  \/ CommLoop \/ CommGoto \/ AwaitComm \/ CommJson \/ CommCatch \/ CommExport
  \/ UnhandledRejection \/ ContextClose \/ BrowserClose

\* a step in which something the run waits for from outside shows up: a backend
\* response, or the second-factor approval
ArrivalOps ==
  {"response.template", "response.cases", "response.communications",
   "waitForURL.ProcessAuth"}
Arrival ==
  /\ Len(trace') = Len(trace) + 1
  /\ trace'[Len(trace')].op \in ArrivalOps
  /\ trace'[Len(trace')].ok

\* A single run.  Every call the run makes is carried out, and every timer it
\* set fires; that a response or an approval arrives is never assumed.
SpecLive == Init /\ [][RunStep]_vars /\ WF_vars(RunStep /\ ~Arrival)

\* ======================================================= replay: migrator.ts
TemplateTypes == <<"issuance", "reissuance", "release">>
\* what template[type] may hold in an exported record: a body with content, a
\* blank body, a null body, or no entry for the type at all
BodyKinds == {"html", "blank", "null", "missing"}
\* what one exports/communications_{caseId}.json holds: a non-empty array
CommFileContents == CommPayloads \ {<< >>}
\* answers of the destination to authenticateUser
AuthReplies ==
  {r \in [requestOk : BOOLEAN, parses : BOOLEAN, hasData : BOOLEAN,
          hasPayload : BOOLEAN, hasErrors : BOOLEAN] :
     /\ ~r.requestOk => (~r.parses /\ ~r.hasErrors)
     /\ ~r.parses => (~r.hasData /\ ~r.hasErrors)
     /\ ~r.hasData => ~r.hasPayload
     /\ (r.parses /\ ~r.hasPayload) => r.hasErrors}
\* answers of the destination to one createTemplate request: the created id; an
\* errors array without data; an errors array next to data (a partial GraphQL
\* answer); a failed request; a body that is not JSON; a body without data
CreateReplies ==
  {"created", "errors", "errorsAndData", "requestFails", "notJson", "noData"}

RECURSIVE SeqsUpTo(_, _)
SeqsUpTo(S, n) ==
  IF n = 0 THEN {<< >>}
  ELSE LET shorter == SeqsUpTo(S, n - 1)
       IN shorter \cup {Append(q, x) : q \in {r \in shorter : Len(r) = n - 1}, x \in S}

ReplayInit ==
  /\ rpc = "launch"
  /\ authReply = [requestOk |-> FALSE, parses |-> FALSE, hasData |-> FALSE,
                  hasPayload |-> FALSE, hasErrors |-> FALSE]
  /\ auth = "none"
  /\ templatesFile \in SeqsUpTo(BodyKinds, MaxTemplates)
  /\ commFiles \in SeqsUpTo(CommFileContents, MaxCommFiles)
  /\ tmplPos = 0
  /\ typePos = 0
  /\ fileIdx = 0
  /\ commStep = 0
  /\ createCalls = << >>
  /\ rAbortSite = ""

\* the scrape orchestrators do not run while the replay does
ScrapeIdle ==
  /\ prog = "scraper"
  /\ env = [v \in EnvVars |-> "alice"]
  /\ sessionFiles = [u \in Users |-> "absent"]
  /\ sessionAtStart = "absent"
  /\ sessionAge = 0
  /\ pc = "done"
  /\ abortSite = ""
  /\ ctxState = "none"
  /\ trace = << >>
  /\ authResult = "none"
  /\ twoFA = "none"
  /\ savedPath = << >>
  /\ rows = 0
  /\ rowIdx = 0
  /\ templates = << >>
  /\ tmplReturned = FALSE
  /\ waits = {}
  /\ casesUrl = << >>
  /\ cases = << >>
  /\ caseIdx = 0
  /\ commResults = << >>
  /\ commFailed = << >>
  /\ errorLog = << >>
  /\ exports = {}
  /\ templatesExport = [written |-> FALSE, data |-> << >>]

\* a step of the replay orchestrator that throws leaves it uncaught
RStep(ok, next, site) ==
  /\ rpc' = IF ok THEN next ELSE "aborted"
  /\ rAbortSite' = IF ok THEN rAbortSite ELSE site

\* chromium.launch({ headless: true }); browser.newContext({ baseURL })
RSetup ==
  /\ rpc = "launch"
  /\ \E ok \in BOOLEAN : RStep(ok, "authenticateUser", "setup")
  /\ UNCHANGED <<authReply, auth, templatesFile, commFiles, tmplPos, typePos, fileIdx,
                 commStep, createCalls>>
  /\ UNCHANGED scrapeVars

\* a faulty variant of AuthenticateUserThrows: only a failed request throws; the reads of
\* the body are optional-chained and yield undefined tokens
AuthenticateUserLenient(r) == ~r.requestOk

\* authenticateUser: request.post, response.json(), then the reads of
\* responseBody.data.authenticateUser.*; whatever throws inside the try is
\* thrown on as Error('Authentication failed').  TRUE when the call throws.
AuthenticateUserThrows(r) ==
  \/ ~r.requestOk            \* request.post rejects
  \/ ~r.parses               \* response.json() rejects
  \/ ~r.hasData              \* responseBody.data is null or undefined
  \/ ~r.hasPayload           \* responseBody.data.authenticateUser is null or undefined

\* const auth = await authenticateUser(context.request, {...})
AuthenticateUser ==
  /\ rpc = "authenticateUser"
  /\ \E r \in AuthReplies :
       /\ authReply' = r
       /\ auth' = IF AuthenticateUserThrows(r) THEN auth ELSE "token"
       /\ RStep(~AuthenticateUserThrows(r), "loadTemplates", "authenticateUser")
  /\ UNCHANGED <<templatesFile, commFiles, tmplPos, typePos, fileIdx, commStep,
                 createCalls>>
  /\ UNCHANGED scrapeVars

\* templates = JSON.parse(fs.readFileSync('exports/templates.json', 'utf-8'))
LoadTemplates ==
  /\ rpc = "loadTemplates"
  /\ \E ok \in BOOLEAN : RStep(ok, "templateLoop", "loadTemplates")
  /\ tmplPos' = 1
  /\ typePos' = 1
  /\ UNCHANGED <<authReply, auth, templatesFile, commFiles, fileIdx, commStep,
                 createCalls>>
  /\ UNCHANGED scrapeVars

\* for (const template of [templates[0]]): the list the loop iterates, as
\* indices into the loaded array (0: templates[0] is undefined)
TemplatesIterated(ts) == <<IF Len(ts) > 0 THEN 1 ELSE 0>>
\* for (const type of [templateTypes[0]])
TypesIterated == <<TemplateTypes[1]>>

\* JSON.stringify(template[type].body)
Stringify(kind) ==
  CASE kind = "html" -> "\"html\""
    [] kind = "blank" -> "\"\""
    [] kind = "null" -> "null"

\* a faulty variant of CreateTemplateThrows: the catch block logs and does not
\* throw on, so the call returns undefined
CreateTemplateSwallows(reply) == FALSE

\* a faulty variant of CreateTemplateThrows: data.createTemplate is returned
\* whenever it is present, the errors array being looked at only without it
CreateTemplateDataFirst(reply) == reply \notin {"created", "errorsAndData"}

\* createTemplate: one request.post; it throws Error('Template creation failed')
\* when the request or the body parse fails, when the body carries an errors
\* array, or when it carries no data; else it returns data.createTemplate.
CreateTemplateThrows(reply) == reply # "created"

\* the head of the two nested template loops
TemplateLoop ==
  /\ rpc = "templateLoop"
  /\ LET its == TemplatesIterated(templatesFile)
     IN IF tmplPos > Len(its)
        THEN /\ rpc' = "readdir"
             /\ UNCHANGED <<tmplPos, typePos, rAbortSite>>
        ELSE IF its[tmplPos] = 0
        THEN \* template.templateName on undefined: TypeError
             /\ RStep(FALSE, "templateLoop", "templateLoop")
             /\ UNCHANGED <<tmplPos, typePos>>
        ELSE IF typePos > Len(TypesIterated)
        THEN /\ tmplPos' = tmplPos + 1
             /\ typePos' = 1
             /\ UNCHANGED <<rpc, rAbortSite>>
        ELSE IF templatesFile[its[tmplPos]] = "missing"
        THEN \* template[type].body on undefined: TypeError
             /\ RStep(FALSE, "templateLoop", "templateLoop")
             /\ UNCHANGED <<tmplPos, typePos>>
        ELSE /\ rpc' = "createForTemplate"
             /\ UNCHANGED <<tmplPos, typePos, rAbortSite>>
  /\ UNCHANGED <<authReply, auth, templatesFile, commFiles, fileIdx, commStep,
                 createCalls>>
  /\ UNCHANGED scrapeVars

CreateCall(kind, src, type, body, reply) ==
  [kind |-> kind, src |-> src, type |-> type, body |-> body, token |-> auth,
   reply |-> reply]

\* await createTemplate(context.request, auth?.accessToken, {templateName,
\* templateBody: JSON.stringify(template[type].body), tenantId})
CreateForTemplate ==
  /\ rpc = "createForTemplate"
  /\ LET t == TemplatesIterated(templatesFile)[tmplPos]
         type == TypesIterated[typePos]
     IN \E reply \in CreateReplies :
          /\ createCalls' = Append(createCalls,
                CreateCall("template", t, type, Stringify(templatesFile[t]), reply))
          /\ RStep(~CreateTemplateThrows(reply), "templateLoop", "createTemplate")
          /\ typePos' = IF CreateTemplateThrows(reply) THEN typePos ELSE typePos + 1
  /\ UNCHANGED <<authReply, auth, templatesFile, commFiles, tmplPos, fileIdx, commStep>>
  /\ UNCHANGED scrapeVars

\* files = fs.readdirSync('exports'); matchedFiles = files.filter(startsWith 'communication')
Readdir ==
  /\ rpc = "readdir"
  /\ \E ok \in BOOLEAN : RStep(ok, "fileLoop", "readdir")
  /\ fileIdx' = 1
  /\ commStep' = 1
  /\ UNCHANGED <<authReply, auth, templatesFile, commFiles, tmplPos, typePos, createCalls>>
  /\ UNCHANGED scrapeVars

\* for (const file of matchedFiles) { communication = JSON.parse(readFileSync)[0]; ... }
FileLoop ==
  /\ rpc = "fileLoop"
  /\ IF fileIdx > Len(commFiles)
     THEN /\ rpc' = "contextClose"
          /\ UNCHANGED rAbortSite
     ELSE \E ok \in BOOLEAN :
            \* the read or the parse may throw; communication.Name throws on an
            \* empty array
            RStep(ok /\ Len(commFiles[fileIdx]) > 0, "createForCommunication", "readFile")
  /\ UNCHANGED <<authReply, auth, templatesFile, commFiles, tmplPos, typePos, fileIdx,
                 commStep, createCalls>>
  /\ UNCHANGED scrapeVars

\* the three createTemplate calls made for communication = array[0], in order:
\* Issuance, Reissuance, Release
CreateForCommunication ==
  /\ rpc = "createForCommunication"
  /\ LET record == commFiles[fileIdx][1]
         type == TemplateTypes[commStep]
     IN \E reply \in CreateReplies :
          /\ createCalls' = Append(createCalls,
                CreateCall("communication", fileIdx, type, record, reply))
          /\ IF CreateTemplateThrows(reply)
             THEN /\ RStep(FALSE, "fileLoop", "createTemplate")
                  /\ UNCHANGED <<fileIdx, commStep>>
             ELSE IF commStep < Len(TemplateTypes)
             THEN /\ commStep' = commStep + 1
                  /\ UNCHANGED <<rpc, rAbortSite, fileIdx>>
             ELSE /\ commStep' = 1
                  /\ fileIdx' = fileIdx + 1
                  /\ rpc' = "fileLoop"
                  /\ UNCHANGED rAbortSite
  /\ UNCHANGED <<authReply, auth, templatesFile, commFiles, tmplPos, typePos>>
  /\ UNCHANGED scrapeVars

\* await context.close()
RContextClose ==
  /\ rpc = "contextClose"
  /\ \E ok \in BOOLEAN :
       /\ RStep(ok, "browserClose", "teardown")
       /\ trace' = Append(trace, Ev("context.close", 0, ok))
  /\ UNCHANGED <<authReply, auth, templatesFile, commFiles, tmplPos, typePos, fileIdx,
                 commStep, createCalls>>
  /\ UNCHANGED <<idVars, sessionFiles, pc, abortSite, ctxState, loginVars, tmplVars,
                 waits, commVars>>

\* await browser.close()
RBrowserClose ==
  /\ rpc = "browserClose"
  /\ \E ok \in BOOLEAN :
       /\ RStep(ok, "done", "teardown")
       /\ trace' = Append(trace, Ev("browser.close", 0, ok))
  /\ UNCHANGED <<authReply, auth, templatesFile, commFiles, tmplPos, typePos, fileIdx,
                 commStep, createCalls>>
  /\ UNCHANGED <<idVars, sessionFiles, pc, abortSite, ctxState, loginVars, tmplVars,
                 waits, commVars>>

InitReplay == ScrapeIdle /\ ReplayInit

NextReplay ==
  \/ RSetup \/ AuthenticateUser \/ LoadTemplates \/ TemplateLoop \/ CreateForTemplate
  \/ Readdir \/ FileLoop \/ CreateForCommunication \/ RContextClose \/ RBrowserClose

SpecReplay == InitReplay /\ [][NextReplay]_vars

\* =================================================================== claims
\* ----------------------------------------------------------- trace helpers
Has(op) == \E i \in DOMAIN trace : trace[i].op = op
HasOk(op) == \E i \in DOMAIN trace : trace[i].op = op /\ trace[i].ok
Count(op) == Cardinality({i \in DOMAIN trace : trace[i].op = op})
\* position of the first call of op (0 when there is none)
First(op) ==
  IF Has(op)
  THEN CHOOSE i \in DOMAIN trace :
         trace[i].op = op /\ \A j \in 1..(i - 1) : trace[j].op # op
  ELSE 0
\* the first action of a scraper: the template scraper's goto
ScrapeBegun == Has("TemplateScraper.goto")
\* calls made on the login provider's pages
LoginFillOps == {"fill.loginfmt", "fill.passwd"}
LoginSubmitOps == {"click.submitUser", "click.submitPasswd", "click.accountTile"}
\* calls that act on the page (the setup calls do not)
SetupOps == {"chromium.launch", "newContext", "mkdirSync.exports"}
PageCalls == SelectSeq(trace, LAMBDA e : e.op \notin SetupOps)
Occurrences(seq, x) == Cardinality({i \in DOMAIN seq : seq[i] = x})

\* C1 (as claimed): in a run started without a session file, the login-page
\* navigation, the username entry, the password entry and the second-factor
\* wait all occur, in that order, before the first scraper action begins.
C1_FullLoginBeforeScrape ==
  (sessionAtStart = "absent" /\ ScrapeBegun) =>
     \E a, b, c, d \in DOMAIN trace :
        /\ a < b /\ b < c /\ c < d /\ d < First("TemplateScraper.goto")
        /\ trace[a].op = "MSLogin.goto" /\ trace[a].ok
        /\ trace[b].op \in {"fill.loginfmt", "click.accountTile"} /\ trace[b].ok
        /\ trace[c].op = "fill.passwd" /\ trace[c].ok
        /\ trace[d].op = "waitForURL.ProcessAuth"

C8_SaveSessionOnceSamePath ==
  /\ Count("saveSession") <= 1
  /\ (authResult = "true" /\ pc \notin {"loginSuccess", "saveSession"}) =>
        Count("saveSession") = 1
  /\ (Has("saveSession") /\ ScrapeBegun) =>
        First("saveSession") < First("TemplateScraper.goto")
  /\ (authResult = "true" /\ ScrapeBegun) => Has("saveSession")
  /\ Has("saveSession") =>
        /\ Has("authenticate") /\ authResult = "true"
        /\ NormalizePath(savedPath) = NormalizePath(StorageStatePath(prog))
  /\ HasOk("saveSession") => sessionFiles[PathUser(StorageStatePath(prog))] # "absent"

\* a run that logged in, saved the session and began to scrape
C8_Witness ==
  /\ authResult = "true" /\ HasOk("saveSession") /\ ScrapeBegun
  /\ sessionAtStart = "absent"

\* ------------------------------------------------- scrapeCommunications (C3)
CommStepOps == {"CommunicationsScraper.goto", "response.communications",
                "json.communications"}
\* the steps of scrapeCommunications that threw, as (position in trace)
FailedCommSteps == {i \in DOMAIN trace : trace[i].op \in CommStepOps /\ ~trace[i].ok}

\* C3: when the response wait of scrapeCommunications times out, or another
\* step of the call throws, the call returns an empty array and asks for
\* exactly one append to error_log.txt; it never rejects to its caller.  (A
\* call is in its catch block, or it has returned so; the one other way out is
\* the end of the whole process.)
C3_CommFailureCaughtLoggedOnce ==
  /\ \A i \in FailedCommSteps :
       LET c == trace[i].arg
       IN \/ pc = "commCatch" /\ cases[caseIdx] = c
          \/ pc = "crashed" /\ Len(commResults) < c
          \/ /\ Len(commResults) >= c
             /\ commResults[c] = << >>
             /\ commFailed[c]
             /\ Occurrences(errorLog, c) = 1
  /\ \A c \in DOMAIN commResults :
       Occurrences(errorLog, c) = (IF commFailed[c] THEN 1 ELSE 0)

\* a call whose response wait timed out has returned to the loop
C3_Witness ==
  \E i \in FailedCommSteps :
     /\ trace[i].op = "response.communications"
     /\ Len(commResults) >= trace[i].arg
     /\ pc = "commLoop"

\* ------------------------------------------------------ scrapeTemplates (C4)
CycleOps == {"click.row", "click.edit", "response.template", "click.cancel"}
CycleEvents == SelectSeq(trace, LAMBDA e : e.op \in CycleOps)
\* open (row click, Edit click), capture (the awaited response), Cancel: rows 1..n
RECURSIVE ExpectedCycles(_)
ExpectedCycles(n) ==
  IF n = 0 THEN << >>
  ELSE ExpectedCycles(n - 1) \o
       <<Ev("click.row", n, TRUE), Ev("click.edit", n, TRUE),
         Ev("response.template", n, TRUE), Ev("click.cancel", n, TRUE)>>

\* C4: on a list of N rows whose detail responses all arrive, scrapeTemplates
\* performs exactly N cycles open -> capture -> cancel, cycle i finished before
\* cycle i + 1 starts, and returns N entries, entry i captured in cycle i.
C4_NSequentialCycles ==
  /\ LET done == CycleEvents
         expected == ExpectedCycles(rows)
     IN /\ \A k \in DOMAIN done :
             /\ k <= Len(expected)
             /\ done[k].op = expected[k].op
             /\ done[k].arg = expected[k].arg
             /\ k < Len(done) => done[k].ok
        /\ tmplReturned => done = expected
  /\ Len(templates) <= rows
  /\ \A i \in DOMAIN templates : templates[i] = [row |-> i]
  /\ tmplReturned => Len(templates) = rows
  /\ (Has("rows.all") /\ Count("response.template") = rows
        /\ Count("click.cancel") = rows
        /\ \A i \in DOMAIN trace : trace[i].op \in CycleOps => trace[i].ok)
       => (pc = "tmplReturn" \/ tmplReturned)

\* scrapeTemplates has returned from a list of at least two rows
C4_Witness == tmplReturned /\ rows >= 2 /\ Len(templates) = rows

\* ------------------------------------------------------- wait timeouts (C9)
WaitOps == {"response.template", "response.cases", "response.communications"}

\* C9 (as claimed): no scraper lets the timeout of its response wait leave it
\* as a thrown error into the orchestrator.
C9_NoTimeoutReachesOrchestrator ==
  ~ /\ pc = "aborted"
    /\ Len(trace) > 0
    /\ trace[Len(trace)].op \in WaitOps
    /\ ~trace[Len(trace)].ok

\* --------------------------------------------------- the per-case loop (C10)
CommInvocations == SelectSeq(trace, LAMBDA e : e.op = "scrapeCommunications")
ExportFailed == \E i \in DOMAIN trace : trace[i].op = "writeFileSync.communications"
                                        /\ ~trace[i].ok

\* C10 (as claimed): scrapeCommunications is invoked once per case returned by
\* scrapeCases, in list order, whether or not the scrape of an earlier case
\* failed: after a failed case the loop goes on to the next case and then to
\* the teardown.
C10_LoopSurvivesCaseFailure ==
  /\ Len(CommInvocations) <= Len(cases)
  /\ \A k \in DOMAIN CommInvocations : CommInvocations[k].arg = cases[k]
  /\ Has("context.close") => Len(CommInvocations) = Len(cases)
  /\ (Has("scrapeCommunications") /\ ~Running /\ ~ExportFailed) =>
        /\ Len(CommInvocations) = Len(cases)
        /\ Has("context.close")

\* ------------------------------------------------------ template replay (C5)
TemplateCalls(t, type) ==
  {i \in DOMAIN createCalls : /\ createCalls[i].kind = "template"
                              /\ createCalls[i].src = t
                              /\ createCalls[i].type = type}

\* C5 (as claimed): once the template replay loop has run, exactly one
\* createTemplate call was issued per (template of exports/templates.json x
\* selected type) pair, blank and null bodies included.
C5_OneCallPerTemplateAndType ==
  rpc = "readdir" =>
     /\ \A t \in DOMAIN templatesFile : \A k \in DOMAIN TypesIterated :
           Cardinality(TemplateCalls(t, TypesIterated[k])) = 1
     /\ Len(createCalls) = Len(templatesFile) * Len(TypesIterated)

\* -------------------------------------------- destination authentication (C6)
\* authenticateUser has been called and has settled
AuthAnswered == rpc \notin {"launch", "authenticateUser"} /\ rAbortSite # "setup"
\* the request failed, or the answer carries no authenticateUser payload
AuthFailed == ~authReply.requestOk \/ ~authReply.parses \/ ~authReply.hasPayload

\* C6: when destination authentication fails, the replay run aborts with no
\* createTemplate call issued, for templates and communications alike.
C6_AuthFailureAbortsBeforeCreate ==
  /\ (AuthAnswered /\ AuthFailed) =>
        /\ rpc = "aborted"
        /\ rAbortSite = "authenticateUser"
        /\ createCalls = << >>
  /\ createCalls # << >> => (auth = "token" /\ ~AuthFailed)

\* the destination answered with an errors array and no payload; the run aborted
C6_Witness ==
  /\ AuthAnswered /\ authReply.parses /\ authReply.hasErrors /\ ~authReply.hasPayload
  /\ rpc = "aborted"
  /\ Len(templatesFile) > 0 /\ Len(commFiles) > 0

\* ------------------------------------------------- createTemplate (C11, C12)
\* the createTemplate calls that threw: every call but the last has returned,
\* the last one threw when the run stopped at it
ThrownCalls ==
  {i \in DOMAIN createCalls :
     i = Len(createCalls) /\ rpc = "aborted" /\ rAbortSite = "createTemplate"}
CallKey(c) == <<c.kind, c.src, c.type>>

\* C11: in a replay run no createTemplate call follows the first one that
\* fails: the failure leaves the orchestrator uncaught and ends the run with
\* the remaining templates and communication files unreplayed.
C11_FirstFailureEndsReplay ==
  \A i \in DOMAIN createCalls :
     createCalls[i].reply # "created" =>
        /\ i = Len(createCalls)
        /\ rpc = "aborted"
        /\ rAbortSite = "createTemplate"

\* a call for the first communication file failed after earlier calls were
\* answered; a second file is left unreplayed
C11_Witness ==
  /\ rpc = "aborted"
  /\ Len(createCalls) >= 2
  /\ createCalls[Len(createCalls)].reply # "created"
  /\ createCalls[Len(createCalls)].kind = "communication"
  /\ createCalls[Len(createCalls)].src < Len(commFiles)

\* C12: createTemplate sends one request per call and never repeats it; a
\* response carrying an errors array makes the call throw and return no id; an
\* id is returned only from a response without an errors array.
C12_OneRequestThrowsOnErrors ==
  /\ \A i, j \in DOMAIN createCalls :
        i < j => CallKey(createCalls[i]) # CallKey(createCalls[j])
  /\ \A i \in DOMAIN createCalls :
        /\ createCalls[i].reply \in {"errors", "errorsAndData"} => i \in ThrownCalls
        /\ i \notin ThrownCalls => createCalls[i].reply = "created"

\* the destination answered a call with an errors array next to data: it threw
C12_Witness ==
  /\ Len(createCalls) >= 2
  /\ createCalls[Len(createCalls)].reply = "errorsAndData"
  /\ Len(createCalls) \in ThrownCalls

\* ------------------------------------------------- communication replay (C13)
CommunicationCalls(f) ==
  SelectSeq(createCalls, LAMBDA c : c.kind = "communication" /\ c.src = f)
RECURSIVE RecordCount(_)
RecordCount(files) ==
  IF files = << >> THEN 0 ELSE Len(Head(files)) + RecordCount(Tail(files))

\* C13 (as claimed): once the communication replay loop has run, every record
\* of every exports/communications_{caseId}.json file has had three
\* createTemplate calls, issuance, reissuance, release in that order: a file
\* of k records has 3 * k calls.
C13_ThreeCallsPerRecord ==
  rpc = "contextClose" =>
     /\ \A f \in DOMAIN commFiles :
           /\ Len(CommunicationCalls(f)) = 3 * Len(commFiles[f])
           /\ \A k \in DOMAIN commFiles[f] : \A s \in DOMAIN TemplateTypes :
                 /\ CommunicationCalls(f)[3 * (k - 1) + s].type = TemplateTypes[s]
                 /\ CommunicationCalls(f)[3 * (k - 1) + s].body = commFiles[f][k]
     /\ Len(SelectSeq(createCalls, LAMBDA c : c.kind = "communication"))
           = 3 * RecordCount(commFiles)

\* ----------------------------------------------------------- scrapeCases (C14)
\* the URL of the cases-list response
CasesListUrl == <<"cases">>

\* C14 (as claimed): scrapeCases returns the records of the `value` array of
\* the response it read, unchanged and in order, and that response is the
\* cases-list response, not another backend response.
C14_ReadsOwnCasesList ==
  HasOk("json.cases") =>
     /\ cases = CaseList(Len(cases))
     /\ casesUrl = CasesListUrl
     /\ First("waitForResponse.cases") < First("CasesScraper.goto")

\* -------------------------------------------------------- session expiry (C15)
\* the run logged in afresh before the first scraper action
FreshLogin ==
  /\ HasOk("fill.passwd")
  /\ First("authenticate") < First("TemplateScraper.goto")

\* C15 (as claimed): a stored session is reused only while it is less than
\* 8 hours old: a run started with a session file written more than 8 hours
\* earlier treats it as expired and logs in afresh before it scrapes.
C15_SessionExpiresAfter8Hours ==
  (sessionAtStart # "absent" /\ sessionAge > SessionTimeoutHours /\ ScrapeBegun)
     => FreshLogin

\* ------------------------------------------------- authenticate rejects (C16)
\* the credential-entry steps: account-tile click or username fill and submit,
\* password-field wait, password fill, submit
CredentialOps ==
  {"click.accountTile", "fill.loginfmt", "click.submitUser",
   "waitForSelector.passwd", "fill.passwd", "click.submitPasswd"}
CredentialStepThrew ==
  \E i \in DOMAIN trace : trace[i].op \in CredentialOps /\ ~trace[i].ok

TriggerOps == {"CasesScraper.goto", "CommunicationsScraper.goto", "click.edit"}
ArmOf(op) ==
  CASE op = "CasesScraper.goto" -> "waitForResponse.cases"
    [] op = "CommunicationsScraper.goto" -> "scrapeCommunications"
    [] op = "click.edit" -> "waitForResponse.template"
\* the wait of the scrape call or row cycle that is under way
OwnWait ==
  CASE pc \in {"casesGoto", "awaitCases"} -> Wait("cases", 0)
    [] pc \in {"editClick", "awaitTemplate"} -> Wait("template", rowIdx)
    [] pc \in {"commGoto", "awaitComm"} -> Wait("communications", cases[caseIdx])

C18_AtMostOneWaitArmed == Cardinality(waits) <= 1

\* ------------------------------------------------------------ teardown (C19)
\* the run of whichever orchestrator is under way has finished without an
\* uncaught error
RunFinished == IF rpc = "idle" THEN pc = "done" ELSE rpc = "done"
\* the run was ended by an uncaught error raised before the teardown
RunAbortedEarly ==
  IF rpc = "idle"
  THEN pc \in {"aborted", "crashed"} /\ abortSite # "teardown"
  ELSE rpc = "aborted" /\ rAbortSite # "teardown"

\* C19 (as claimed): a run of index.ts, scraper.ts or migrator.ts that finishes
\* without an uncaught error has called context.close and then browser.close,
\* each once, after its last other call; a run ended by an uncaught error has
\* called neither.
C19_TeardownOnceOrNever ==
  /\ RunFinished =>
        /\ Len(trace) >= 2
        /\ trace[Len(trace) - 1] = Ev("context.close", 0, TRUE)
        /\ trace[Len(trace)] = Ev("browser.close", 0, TRUE)
        /\ Count("context.close") = 1
        /\ Count("browser.close") = 1
  /\ RunAbortedEarly => (~Has("context.close") /\ ~Has("browser.close"))

\* -------------------------------------------------------- termination (C20)
\* C20: every orchestrator run over a finite list of rows and of cases
\* eventually ends, by its teardown or by an uncaught error: every wait of
\* the run settles, by what it waits for or by its timeout.
C20_RunTerminates == <>(~Running)

\* a run over at least one row and one case has ended by its teardown
C20_Witness ==
  /\ pc = "done"
  /\ prog = "scraper"
  /\ rows >= 1
  /\ Len(commResults) >= 1

\* ------------------------------------------------- communications export (C21)
\* the export files written for a case
ExportsOf(c) == {e \in exports : e.caseId = c}
\* the cases the per-case loop has gone through, export included
CasesDone == {k \in DOMAIN commResults : k < caseIdx}

\* C21: the scraper orchestrator writes exports/communications_{caseId}.json
\* for a case exactly when the scrape of that case returned at least one
\* communication; every such file holds the non-empty array returned, so it is
\* a file whose first record the replay can read.
C21_ExportIffCommunications ==
  /\ \A k \in CasesDone :
        ExportsOf(cases[k]) # {} <=> Len(commResults[k]) > 0
  /\ \A i \in DOMAIN trace :
        trace[i].op = "writeFileSync.communications" =>
           \E k \in DOMAIN commResults :
              cases[k] = trace[i].arg /\ Len(commResults[k]) > 0
  /\ \A e \in exports :
        /\ Len(e.data) > 0
        /\ e.data \in CommFileContents
        /\ \E k \in DOMAIN commResults : cases[k] = e.caseId /\ commResults[k] = e.data

\* the loop has gone through two cases: one returned communications and has
\* its file, the other returned none and has no file
C21_Witness ==
  /\ pc = "contextClose"
  /\ Len(cases) >= 2
  /\ \E k, l \in CasesDone :
        /\ Len(commResults[k]) > 0 /\ ExportsOf(cases[k]) # {}
        /\ Len(commResults[l]) = 0 /\ ~commFailed[l] /\ ExportsOf(cases[l]) = {}

====
